---- MODULE Spec2Model ----
(***************************************************************************)
(* Model of src/export.py: the per-object export loop of the Salesforce    *)
(* export script.  For each configured object type the script runs the    *)
(* describe command, parses its output as JSON, collects the names of the *)
(* fields whose referenceTo list contains 'Account', builds a SOQL query, *)
(* runs the bulk export command and checks its exit code and output file. *)
(*                                                                         *)
(* JSON values are tagged records; Python's operators on them ('in',      *)
(* indexing, truthiness, .keys(), str.join) are operators that say when   *)
(* the interpreter raises.  An exception no try block of the script       *)
(* catches ends the run: pc = "crashed".  A string is a sequence of       *)
(* tokens where the script concatenates (the query).                      *)
(***************************************************************************)
EXTENDS Integers, Sequences, FiniteSets, TLC

(***************************************************************************)
(* Bounds of the model.                                                    *)
(***************************************************************************)
\* how many of the configured object types a modelled run processes
NumObjects == 2
\* the longest field list a modelled describe response carries
MaxFields == 2

(***************************************************************************)
(* Configuration (src/export.py lines 24-31).                              *)
(***************************************************************************)
OBJECTS == <<"Account", "Contact", "Case", "Opportunity", "Order", "Asset">>

EXPORT_DIRECTORY == "./exports"

\* the object types of a modelled run: the first NumObjects configured ones
Objects == SubSeq(OBJECTS, 1, NumObjects)

ObjectSet == {Objects[i] : i \in 1..Len(Objects)}

(***************************************************************************)
(* JSON values as json.loads returns them.                                 *)
(***************************************************************************)
JNull == [kind |-> "null"]

JNum(n) == [kind |-> "num", n |-> n]

JStr(s) == [kind |-> "str", s |-> s]

JArr(a) == [kind |-> "arr", items |-> a]

JObj(m) == [kind |-> "obj", members |-> m]

NoMembers == [k \in {} |-> JNull]

\* the pairs <<needle, text>> of the modelled texts in which the needle is a
\* proper substring of the text; every other needle is in a text only when
\* it equals it
ProperSubstrings ==
    {<<"fields", "no fields here">>, <<"referenceTo", "referenceTo: none">>}

IsSubstring(needle, text) ==
    needle = text \/ <<needle, text>> \in ProperSubstrings

\* bool(v)
Truthy(v) ==
    CASE v.kind = "null" -> FALSE
      [] v.kind = "num" -> v.n # 0
      [] v.kind = "str" -> v.s # ""
      [] v.kind = "arr" -> Len(v.items) > 0
      [] v.kind = "obj" -> DOMAIN v.members # {}

\* "key in v" raises TypeError: v is not iterable
InRaises(v) == v.kind \in {"null", "num"}

\* "key in v" for a container v: a key of a dict, an element of a list, a
\* substring of a str
In(key, v) ==
    CASE v.kind = "obj" -> key \in DOMAIN v.members
      [] v.kind = "arr" -> \E i \in 1..Len(v.items) : v.items[i] = JStr(key)
      [] v.kind = "str" -> IsSubstring(key, v.s)
      [] OTHER -> FALSE

\* v[key] with a str key raises TypeError unless v is a dict
IndexRaises(v) == v.kind # "obj"

\* v.keys() raises AttributeError unless v is a dict
KeysRaises(v) == v.kind # "obj"

IsList(v) == v.kind = "arr"

\* ', '.join(xs) raises TypeError when an item is not a str
JoinRaises(xs) == \E i \in 1..Len(xs) : xs[i].kind # "str"

\* sep.join(xs) for a sequence of texts, as a sequence of tokens
RECURSIVE Join(_, _)
Join(xs, sep) ==
    IF Len(xs) = 0 THEN <<>>
    ELSE IF Len(xs) = 1 THEN <<xs[1]>>
    ELSE <<xs[1], sep>> \o Join(Tail(xs), sep)

\* list(dict.fromkeys(xs)): the first occurrence of every item, in order
RECURSIVE FromKeys(_)
FromKeys(xs) ==
    IF Len(xs) = 0 THEN <<>>
    ELSE LET init == FromKeys(SubSeq(xs, 1, Len(xs) - 1))
             last == xs[Len(xs)]
         IN IF \E i \in 1..Len(init) : init[i] = last THEN init
            ELSE Append(init, last)

\* dict.fromkeys(xs) raises TypeError when an item is unhashable
FromKeysRaises(xs) == \E i \in 1..Len(xs) : xs[i].kind \in {"arr", "obj"}

(***************************************************************************)
(* STEP 2: locating the field list and filtering it (lines 127-161).       *)
(***************************************************************************)
\* lines 130-131: the condition of the result.fields branch raises
ResultBranchRaises(d) ==
    \/ InRaises(d)
    \/ /\ In("result", d)
       /\ \/ IndexRaises(d)
          \/ InRaises(d.members.result)
          \/ /\ In("fields", d.members.result)
             /\ IndexRaises(d.members.result)

\* lines 130-131: the result.fields branch is taken
ResultBranch(d) ==
    /\ In("result", d)
    /\ In("fields", d.members.result)
    /\ IsList(d.members.result.members.fields)

\* line 146: the condition of the direct fields branch raises
FieldsBranchRaises(d) == In("fields", d) /\ IndexRaises(d)

\* line 146: the direct fields branch is taken
FieldsBranch(d) == In("fields", d) /\ IsList(d.members.fields)

\* line 160: computing the diagnostic of the else branch raises
ElseBranchRaises(d) == In("result", d) /\ KeysRaises(d.members.result)

\* lines 130-161: which branch the script takes and the list it iterates
Locate(d) ==
    IF ResultBranchRaises(d) THEN [branch |-> "raise", fields |-> <<>>]
    ELSE IF ResultBranch(d)
    THEN [branch |-> "result.fields",
          fields |-> d.members.result.members.fields.items]
    ELSE IF FieldsBranchRaises(d) THEN [branch |-> "raise", fields |-> <<>>]
    ELSE IF FieldsBranch(d)
    THEN [branch |-> "fields", fields |-> d.members.fields.items]
    ELSE IF ElseBranchRaises(d) THEN [branch |-> "raise", fields |-> <<>>]
    ELSE [branch |-> "none", fields |-> <<>>]

\* lines 137-138 / 151-152: the condition on one entry raises
EntryRaises(f) ==
    \/ InRaises(f)
    \/ In("referenceTo", f) /\ IndexRaises(f)

\* EntryQualifies without the test for 'Account': any lookup field qualifies
EntryQualifiesAnyReference(f) ==
    /\ In("referenceTo", f)
    /\ IsList(f.members.referenceTo)

\* lines 137-138 / 151-152: the entry is a lookup field referencing Account
EntryQualifies(f) ==
    /\ In("referenceTo", f)
    /\ IsList(f.members.referenceTo)
    /\ In("Account", f.members.referenceTo)

\* lines 139 / 153: field.get('name', '')
FieldName(f) == IF In("name", f) THEN f.members.name ELSE JStr("")

\* lines 142 / 156: the debug line of a qualifying entry raises
EntryDebugRaises(f) == JoinRaises(f.members.referenceTo.items)

\* lines 135-143 / 150-157: the loop over the located list
RECURSIVE FilterFields(_)
FilterFields(fields) ==
    IF Len(fields) = 0 THEN [raise |-> FALSE, names |-> <<>>]
    ELSE LET init == FilterFields(SubSeq(fields, 1, Len(fields) - 1))
             f == fields[Len(fields)]
         IN IF init.raise THEN init
            ELSE IF EntryRaises(f) THEN [raise |-> TRUE, names |-> init.names]
            ELSE IF ~EntryQualifies(f) THEN init
            ELSE [raise |-> EntryDebugRaises(f),
                  names |-> Append(init.names, FieldName(f))]

(***************************************************************************)
(* STEP 3: the query (lines 184-186).                                      *)
(***************************************************************************)
\* SelectedFields without dict.fromkeys: 'Id' is prepended, nothing is dropped
SelectedFieldsNoDedup(names) == <<JStr("Id")>> \o names

\* line 184: list(dict.fromkeys(['Id'] + field_list))
SelectedFields(names) == FromKeys(<<JStr("Id")>> \o names)

\* lines 184-185 raise: an unhashable name, or a name that is not a str
BuildRaises(names) ==
    FromKeysRaises(<<JStr("Id")>> \o names) \/ JoinRaises(SelectedFields(names))

\* line 185: ', '.join(field_list)
SelectClause(fl) == Join([i \in 1..Len(fl) |-> fl[i].s], ", ")

\* BuildQuery naming the first configured object type instead of the current
BuildQueryFirstObject(fl, o) ==
    <<"SELECT ">> \o SelectClause(fl) \o <<" FROM ", OBJECTS[1]>>

\* line 186: f"SELECT {select_clause} FROM {obj}"
BuildQuery(fl, obj) == <<"SELECT ">> \o SelectClause(fl) \o <<" FROM ", obj>>

\* line 93: f"{EXPORT_DIRECTORY}/{obj}_describe.json"
DescribeFile(obj) == <<EXPORT_DIRECTORY, "/", obj, "_describe.json">>

\* line 214: f"{EXPORT_DIRECTORY}/{obj}_export.csv"
OutputPath(obj) == <<EXPORT_DIRECTORY, "/", obj, "_export.csv">>

\* lines 216-223: the arguments of the export command that vary
ExportCommand(q, o) == [query |-> q, output_file |-> OutputPath(o)]

\* ExportSucceeded looking at the file alone
ExportSucceededFileOnly(code, path, fs) == path \in fs

\* ExportSucceeded taking every status that is not positive for success
ExportSucceededNotPositive(code, path, fs) == code <= 0 /\ path \in fs

\* line 250: the success criterion
ExportSucceeded(code, path, fs) == code = 0 /\ path \in fs

(***************************************************************************)
(* What the two commands can do: the inputs of a modelled run.             *)
(***************************************************************************)
Absent == [kind |-> "absent"]

\* a JSON object with up to two members; an Absent value leaves the key out
Obj2(k1, v1, k2, v2) ==
    JObj([k \in (IF v1 = Absent THEN {} ELSE {k1})
                   \cup (IF v2 = Absent THEN {} ELSE {k2})
             |-> IF k = k1 THEN v1 ELSE v2])

FieldEntry(name, referenceTo) == Obj2("name", name, "referenceTo", referenceTo)

Strs(names) == JArr([i \in 1..Len(names) |-> JStr(names[i])])

\* the field entries of the modelled describe responses
FieldEntries ==
    { FieldEntry(JStr("AccountId"), Strs(<<"Account">>)),
      FieldEntry(JStr("ParentId"), Strs(<<"User", "Account">>)),
      FieldEntry(JStr("Id"), Absent),
      FieldEntry(JStr("Id"), Strs(<<"Account">>)),
      FieldEntry(JStr("OwnerId"), Strs(<<"User", "account">>)),
      FieldEntry(JStr("OwnerId"), JStr("Account")),
      FieldEntry(Absent, Strs(<<"Account">>)),
      FieldEntry(JNum(7), Strs(<<"Account">>)),
      JNum(7) }

SeqsUpTo(S, n) == UNION {[1..k -> S] : k \in 0..n}

FieldLists == SeqsUpTo(FieldEntries, MaxFields)

\* the lists a response carries beside another list
SideLists == {<<FieldEntry(JStr("ParentId"), Strs(<<"Account">>))>>}

\* values of 'result' that hold no field list and let line 130 fall through
FallThroughResults ==
    { Absent, JStr("x"), JObj(NoMembers),
      Obj2("fields", JStr("x"), "done", Absent) }

\* values of 'result' on which lines 130-131 raise
RaisingResults ==
    { JNull, JNum(7), JStr("no fields here"), JArr(<<JStr("fields")>>) }

ListResults == {Obj2("fields", JArr(l), "done", Absent) : l \in FieldLists}

\* the JSON values a describe output parses to: values that are no object,
\* an error report, and objects with 'result' and 'fields' in every
\* combination of shapes, each field list in result.fields (alone and beside
\* a top-level list) and in top-level fields (alone and beside a 'result'
\* whose fields is no list)
JsonResponses ==
    { JNull, JNum(0), JNum(7), JStr(""), JStr("result"), JArr(<<>>),
      JArr(<<JStr("result")>>), Obj2("status", JNum(1), "message", JStr("x")) }
    \cup { Obj2("result", r, "fields", f) :
             r \in FallThroughResults \cup RaisingResults,
             f \in {Absent, JStr("x")} \cup {JArr(l) : l \in SideLists} }
    \cup { Obj2("result", r, "fields", f) :
             r \in ListResults, f \in {Absent} \cup {JArr(l) : l \in SideLists} }
    \cup { Obj2("result", r, "fields", JArr(l)) :
             r \in {Absent, Obj2("fields", JStr("x"), "done", Absent)},
             l \in FieldLists }

\* stdout + stderr of the describe command: text that is no JSON document
\* (empty, or a diagnostic), or the text of a JSON value
DescribeOutputs ==
    { [json |-> FALSE, text |-> t] : t \in {"", "ERROR"} }
    \cup { [json |-> TRUE, value |-> v] : v \in JsonResponses }

\* line 100: json.loads(describe_output) raises JSONDecodeError
LoadsRaises(out) == ~out.json

\* line 100: json.loads(describe_output)
Loads(out) == out.value

\* the return codes of the export command
ReturnCodes == {0, 1}

(***************************************************************************)
(* State.                                                                  *)
(***************************************************************************)
VARIABLES
    pc,              \* where the script is: start, parse, filter, build,
                     \* export, verify, done, crashed
    idx,             \* position of obj in the loop of line 41
    describe_output, \* line 86
    describe_data,   \* line 100
    field_list,      \* lines 127, 140, 154, 184
    query,           \* line 186
    export_command,  \* lines 216-223: the query and output file passed
    exit_code,       \* lines 232, 235
    files,           \* the paths that exist on disk
    written,         \* the paths the export commands of this run wrote
    outcome,         \* per object type: none, succeeded, skipped, failed
    raised,          \* the export command's subprocess.run raised (line 233)
    calls,           \* the command invocations so far, in order
    completed        \* line 258 has printed "All exports completed!"

vars == <<pc, idx, describe_output, describe_data, field_list, query,
          export_command, exit_code, files, written, outcome, raised,
          calls, completed>>

None == [kind |-> "unset"]

obj == Objects[idx]

Init ==
    /\ pc = "start"
    /\ idx = 1
    /\ describe_output = None
    /\ describe_data = None
    /\ field_list = <<>>
    /\ query = <<>>
    /\ export_command = None
    /\ exit_code = 0
    /\ files \in SUBSET {OutputPath(o) : o \in ObjectSet}
    /\ written = {}
    /\ outcome = [o \in ObjectSet |-> "none"]
    /\ raised = FALSE
    /\ calls = <<>>
    /\ completed = FALSE

\* 'continue', or the end of the loop body: the next object type.  Every
\* local of the loop body is assigned again before the next iteration reads
\* it (lines 86, 100, 127, 186, 216, 232/235); the model resets them at the
\* top of the loop
NextObject(result) ==
    /\ outcome' = [outcome EXCEPT ![obj] = result]
    /\ idx' = idx + 1
    /\ pc' = "start"
    /\ describe_output' = None
    /\ describe_data' = None
    /\ field_list' = <<>>
    /\ query' = <<>>
    /\ export_command' = None
    /\ exit_code' = 0
    /\ raised' = FALSE

\* an uncaught exception ends the script
Crash ==
    /\ pc' = "crashed"
    /\ UNCHANGED <<idx, outcome, raised>>

\* lines 65-89: the describe command; subprocess.run raises, or the command
\* returns its output
Describe ==
    /\ pc = "start"
    /\ idx <= Len(Objects)
    /\ calls' = Append(calls, <<"describe", obj>>)
    /\ \/ NextObject("skipped")
       \/ /\ \E out \in DescribeOutputs : describe_output' = out
          /\ pc' = "parse"
          /\ UNCHANGED <<idx, outcome, describe_data, field_list, query,
                         export_command, exit_code, raised>>
    /\ UNCHANGED <<files, written, completed>>

\* lines 93-107: the dump file, json.loads, the top-level keys
Parse ==
    /\ pc = "parse"
    /\ files' = files \cup {DescribeFile(obj)}
    /\ IF LoadsRaises(describe_output)
       THEN NextObject("skipped")
       ELSE /\ describe_data' = Loads(describe_output)
            /\ IF Truthy(Loads(describe_output))
                  /\ KeysRaises(Loads(describe_output))
               THEN Crash
               ELSE pc' = "filter" /\ UNCHANGED <<idx, outcome, raised>>
            /\ UNCHANGED <<describe_output, field_list, query,
                           export_command, exit_code>>
    /\ UNCHANGED <<written, calls, completed>>

\* lines 127-168: locate the field list, filter it, skip when it is empty
Filter ==
    /\ pc = "filter"
    /\ LET loc == Locate(describe_data)
           res == FilterFields(loc.fields)
       IN IF loc.branch = "raise" \/ res.raise
          THEN /\ field_list' = res.names
               /\ Crash
               /\ UNCHANGED <<describe_output, describe_data, query,
                              export_command, exit_code>>
          ELSE IF Len(res.names) = 0
          THEN NextObject("skipped")
          ELSE /\ field_list' = res.names
               /\ pc' = "build"
               /\ UNCHANGED <<idx, outcome, describe_output, describe_data,
                              query, export_command, exit_code, raised>>
    /\ UNCHANGED <<files, written, calls, completed>>

\* lines 184-186: the query
Build ==
    /\ pc = "build"
    /\ IF BuildRaises(field_list)
       THEN Crash /\ UNCHANGED <<field_list, query>>
       ELSE /\ field_list' = SelectedFields(field_list)
            /\ query' = BuildQuery(SelectedFields(field_list), obj)
            /\ pc' = "export"
            /\ UNCHANGED <<idx, outcome, raised>>
    /\ UNCHANGED <<describe_output, describe_data, export_command,
                   exit_code, files, written, calls, completed>>

\* lines 214-235: the export command; subprocess.run raises, or the command
\* returns a code, having written the output file or not
Export ==
    /\ pc = "export"
    /\ export_command' = ExportCommand(query, obj)
    /\ calls' = Append(calls, <<"export", obj>>)
    /\ \/ /\ exit_code' = -1
          /\ raised' = TRUE
          /\ UNCHANGED <<files, written>>
       \/ \E code \in ReturnCodes, wrote \in BOOLEAN :
             /\ exit_code' = code
             /\ raised' = FALSE
             /\ files' = IF wrote THEN files \cup {OutputPath(obj)} ELSE files
             /\ written' = IF wrote THEN written \cup {OutputPath(obj)}
                           ELSE written
    /\ pc' = "verify"
    /\ UNCHANGED <<idx, describe_output, describe_data, field_list, query,
                   outcome, completed>>

\* lines 250-256: the success criterion
Verify ==
    /\ pc = "verify"
    /\ IF ExportSucceeded(exit_code, OutputPath(obj), files)
       THEN NextObject("succeeded")
       ELSE NextObject("failed")
    /\ UNCHANGED <<files, written, calls, completed>>

\* line 258: the loop is over
Finish ==
    /\ pc = "start"
    /\ idx > Len(Objects)
    /\ completed' = TRUE
    /\ pc' = "done"
    /\ UNCHANGED <<idx, describe_output, describe_data, field_list, query,
                   export_command, exit_code, files, written, outcome,
                   raised, calls>>

Next == Describe \/ Parse \/ Filter \/ Build \/ Export \/ Verify \/ Finish

Spec == Init /\ [][Next]_vars

(***************************************************************************)
(* What the specification says of a describe response, stated on the JSON  *)
(* value itself.                                                           *)
(***************************************************************************)
HasMember(v, key) == v.kind = "obj" /\ key \in DOMAIN v.members

IsSequence(v) == v.kind = "arr"

\* result.fields is present and is a sequence
HasResultFields(d) ==
    /\ HasMember(d, "result")
    /\ HasMember(d.members.result, "fields")
    /\ IsSequence(d.members.result.members.fields)

\* top-level fields is present and is a sequence
HasTopFields(d) == HasMember(d, "fields") /\ IsSequence(d.members.fields)

\* the field sequence of a response: result.fields, else top-level fields,
\* else the empty sequence
DeclaredFields(d) ==
    IF HasResultFields(d) THEN d.members.result.members.fields.items
    ELSE IF HasTopFields(d) THEN d.members.fields.items
    ELSE <<>>

\* the entry's referenceTo is a sequence that contains the type name
References(e, type) ==
    /\ HasMember(e, "referenceTo")
    /\ IsSequence(e.members.referenceTo)
    /\ \E i \in 1..Len(e.members.referenceTo.items) :
          e.members.referenceTo.items[i] = JStr(type)

\* the entry's name; the empty string when it has none
NameOf(e) == IF HasMember(e, "name") THEN e.members.name ELSE JStr("")

\* the positions of the entries that reference Account
QualifyingAt(fs) == {i \in 1..Len(fs) : References(fs[i], "Account")}

\* where a name first qualifies
FirstQualifying(fs, n) ==
    CHOOSE i \in QualifyingAt(fs) :
        /\ NameOf(fs[i]) = n
        /\ \A j \in QualifyingAt(fs) : NameOf(fs[j]) = n => i <= j

QualifyingNames(fs) == {NameOf(fs[i]) : i \in QualifyingAt(fs)}

\* the names of the entries that reference Account, one per entry, in order
RECURSIVE QualifyingSeq(_)
QualifyingSeq(fs) ==
    IF Len(fs) = 0 THEN <<>>
    ELSE IF References(Head(fs), "Account")
    THEN <<NameOf(Head(fs))>> \o QualifyingSeq(Tail(fs))
    ELSE QualifyingSeq(Tail(fs))

Range(xs) == {xs[i] : i \in 1..Len(xs)}

\* a query has been built for the current object type: field_list is
\* SelectedFields
QueryBuilt == pc \in {"export", "verify"}

\* the object type has been skipped and the loop has moved on
SkippedToNext ==
    /\ pc' = "start"
    /\ idx' = idx + 1
    /\ outcome'[Objects[idx]] = "skipped"
    /\ calls' = calls

Exported(o) == \E i \in 1..Len(calls) : calls[i] = <<"export", o>>

Described(o) == \E i \in 1..Len(calls) : calls[i] = <<"describe", o>>

Ended == pc \in {"done", "crashed"}

(***************************************************************************)
(* C1                                                                      *)
(***************************************************************************)
\* C1 (as stated): whenever SelectedFields is built, an entry of the located
\* field list has its name in SelectedFields if and only if its referenceTo
\* is a sequence containing 'Account'.
C1_NameSelectedIffQualifies ==
    QueryBuilt =>
        LET fs == DeclaredFields(describe_data)
        IN \A i \in 1..Len(fs) :
              References(fs[i], "Account") <=> NameOf(fs[i]) \in Range(field_list)

\* C1 (amended): whenever SelectedFields is built, the name of every entry
\* of the located field list whose referenceTo is a sequence containing
\* 'Account' is in SelectedFields, and every name in SelectedFields is 'Id'
\* or the name of such an entry.
C1_SelectedAreIdAndQualifying ==
    QueryBuilt =>
        LET fs == DeclaredFields(describe_data)
        IN /\ \A i \in QualifyingAt(fs) : NameOf(fs[i]) \in Range(field_list)
           /\ Range(field_list) \subseteq QualifyingNames(fs) \cup {JStr("Id")}

\* a query was built from a list with a qualifying entry and an entry that
\* does not qualify and whose name was left out
C1_Witness ==
    /\ QueryBuilt
    /\ LET fs == DeclaredFields(describe_data)
       IN /\ QualifyingAt(fs) # {}
          /\ \E i \in 1..Len(fs) :
                /\ ~References(fs[i], "Account")
                /\ HasMember(fs[i], "referenceTo")
                /\ NameOf(fs[i]) \notin Range(field_list)

(***************************************************************************)
(* C2                                                                      *)
(***************************************************************************)
\* C2: whenever a query is built, SelectedFields starts with 'Id', holds no
\* name twice (so 'Id' once, also when a field named 'Id' qualified), and
\* after 'Id' lists exactly the other qualifying names, in the order in
\* which they first qualify in the describe response.
C2_IdFirstNoDuplicatesInOrder ==
    QueryBuilt =>
        LET fs == DeclaredFields(describe_data)
            n == Len(field_list)
        IN /\ n >= 1
           /\ field_list[1] = JStr("Id")
           /\ \A i, j \in 1..n : i # j => field_list[i] # field_list[j]
           /\ Cardinality({i \in 1..n : field_list[i] = JStr("Id")}) = 1
           /\ {field_list[i] : i \in 2..n} = QualifyingNames(fs) \ {JStr("Id")}
           /\ \A i, j \in 2..n :
                 i < j => FirstQualifying(fs, field_list[i])
                            < FirstQualifying(fs, field_list[j])

\* a query was built from a list in which a field named 'Id' qualified
\* after another field
C2_Witness ==
    /\ QueryBuilt
    /\ Len(field_list) >= 2
    /\ LET fs == DeclaredFields(describe_data)
       IN \E i \in QualifyingAt(fs) : i > 1 /\ NameOf(fs[i]) = JStr("Id")

(***************************************************************************)
(* C3                                                                      *)
(***************************************************************************)
\* C3: the query passed to the export command is "SELECT ", the elements of
\* SelectedFields separated by ", ", " FROM " and the name of the object type
\* being processed.
C3_QueryOfCurrentObject ==
    pc = "verify" =>
        LET q == export_command.query
            n == Len(field_list)
        IN /\ Len(q) = 2 * n + 2
           /\ q[1] = "SELECT "
           /\ \A i \in 1..n : q[2 * i] = field_list[i].s
           /\ \A i \in 1..(n - 1) : q[2 * i + 1] = ", "
           /\ q[2 * n + 1] = " FROM "
           /\ q[2 * n + 2] = Objects[idx]

\* the export command runs for the second object type, after it ran for the
\* first, with more than one field
C3_Witness ==
    /\ pc = "verify"
    /\ idx = 2
    /\ Exported(Objects[1])
    /\ Len(field_list) >= 2

(***************************************************************************)
(* C4                                                                      *)
(***************************************************************************)
\* C4: an object type whose describe response parses and has no qualifying
\* field (the 'Id' the query always carries is not one) is skipped: no
\* export is invoked for it and the loop moves to the next object type.
C4_NoQualifyingFieldsSkips ==
    [][/\ (/\ pc = "parse"
           /\ ~LoadsRaises(describe_output)
           /\ QualifyingAt(DeclaredFields(Loads(describe_output))) = {})
          => pc' = "filter"
       /\ (/\ pc = "filter"
           /\ QualifyingAt(DeclaredFields(describe_data)) = {})
          => SkippedToNext]_vars

(***************************************************************************)
(* C5                                                                      *)
(***************************************************************************)
\* C5: after an export invocation the object type is reported Succeeded if
\* and only if the exit status is 0 and a file exists at the output path;
\* otherwise it is reported Failed.
C5_SucceededIffZeroAndFile ==
    [][pc = "verify" =>
          LET ok == exit_code = 0 /\ OutputPath(Objects[idx]) \in files
          IN /\ ok => outcome'[Objects[idx]] = "succeeded"
             /\ ~ok => outcome'[Objects[idx]] = "failed"]_vars

\* the export command returned a non-zero status and a stale file is at the
\* output path
C5_Witness ==
    /\ pc = "verify"
    /\ ~raised
    /\ exit_code # 0
    /\ OutputPath(Objects[idx]) \in files
    /\ OutputPath(Objects[idx]) \notin written

(***************************************************************************)
(* C6                                                                      *)
(***************************************************************************)
\* C6: no error aborts the run: it ends with every object type succeeded,
\* skipped or failed and with the final marker printed.
C6_RunCompletes ==
    Ended =>
        /\ completed
        /\ \A o \in ObjectSet : outcome[o] \in {"succeeded", "skipped", "failed"}

(***************************************************************************)
(* C7                                                                      *)
(***************************************************************************)
\* C7: when the export invocation raises, the exit status is the sentinel
\* -1, the object type is reported Failed, and the loop moves to the next
\* object type.
C7_ExportExceptionFails ==
    [][(pc = "verify" /\ raised) =>
          /\ exit_code = -1
          /\ outcome'[Objects[idx]] = "failed"
          /\ idx' = idx + 1
          /\ pc' = "start"]_vars

\* the export invocation raised for an object type that is not the last,
\* with a file at the output path
C7_Witness ==
    /\ pc = "verify"
    /\ raised
    /\ idx < Len(Objects)
    /\ OutputPath(Objects[idx]) \in files

(***************************************************************************)
(* C8                                                                      *)
(***************************************************************************)
Position(o) == CHOOSE i \in 1..Len(Objects) : Objects[i] = o

\* C8: the commands are invoked in list order, each at most once per object
\* type, the export after the describe of the same object type; when the run
\* has ended every object type has been described, and an object type whose
\* response has qualifying fields has been exported.
C8_SequentialOncePerObject ==
    /\ \A i, j \in 1..Len(calls) :
          i < j => /\ Position(calls[i][2]) <= Position(calls[j][2])
                   /\ calls[i] # calls[j]
                   /\ calls[i][2] = calls[j][2] => calls[i][1] = "describe"
    /\ \A o \in ObjectSet : Exported(o) => Described(o)
    /\ Ended => \A o \in ObjectSet : Described(o)
    /\ (/\ Ended
        /\ describe_data # None
        /\ QualifyingAt(DeclaredFields(describe_data)) # {})
       => Exported(Objects[idx])

(***************************************************************************)
(* C9                                                                      *)
(***************************************************************************)
\* C9: of a response that parses, the names collected are those of the
\* qualifying entries of result.fields when that is a sequence, else of the
\* top-level fields when that is a sequence; when neither is a sequence the
\* object type is skipped and the loop moves to the next object type.
C9_FieldListLocated ==
    [][/\ (pc = "parse" /\ ~LoadsRaises(describe_output)) => pc' = "filter"
       /\ pc = "filter" =>
             IF HasResultFields(describe_data) \/ HasTopFields(describe_data)
             THEN /\ pc' # "crashed"
                  /\ pc' = "build" =>
                        field_list' = QualifyingSeq(DeclaredFields(describe_data))
             ELSE SkippedToNext]_vars

(***************************************************************************)
(* C10                                                                     *)
(***************************************************************************)
\* C10: the output file of an object type reported Succeeded was written by
\* that object type's export invocation in this run.
C10_SucceededFileWrittenThisRun ==
    \A o \in ObjectSet :
        outcome[o] = "succeeded" => OutputPath(o) \in written

====
